---- MODULE Spec2Model ----
(***************************************************************************)
(* Model of package acti/hardcoded (src/acti/hardcoded/apps.go): the       *)
(* HardcodedSlowDowns interference model, the appCategory registry and the *)
(* hardcoded slowDowns table, called from concurrently running goroutines  *)
(* of the scheduler.                                                       *)
(*                                                                         *)
(* float64 values are kept as integers in hundredths: Float(2, 43) is      *)
(* 2.43, Float(-1, 0) is -1 and Float(100, 0) is 100.  Every float literal *)
(* of the source has at most two decimals, and the code only moves floats  *)
(* around (no arithmetic), so the representation is exact.                 *)
(***************************************************************************)
EXTENDS Integers, Sequences, FiniteSets, TLC

VARIABLES
    slowDowns,  \* the package-level map  var slowDowns  (apps.go:141)
    model,      \* the *HardcodedSlowDowns built by New (apps.go:19-29)
    frames,     \* per goroutine: the call it is in, its position and locals
    ncalls      \* number of calls started so far

vars == <<slowDowns, model, frames, ncalls>>

\* ------------------------------------------------------------------ bounds

\* Calls started over a run.
MaxCalls == 3

\* Goroutines of the scheduler that score concurrently.
Goroutines == {"g1", "g2"}

\* ------------------------------------------------------------------ values

\* w.h as a float64 with two decimals, in hundredths (h carries w's sign).
Float(w, h) == w * 100 + h

\* Go's nil error.
nil == [isNil |-> TRUE, format |-> "", args |-> <<>>]

\* fmt.Errorf(format, args...): the message is format with each %s verb
\* replaced by the corresponding argument.
Errorf(format, args) == [isNil |-> FALSE, format |-> format, args |-> args]

\* A Go map index expression m[k]: the element, or the element type's zero
\* value when k is not a key of m (also when m is a nil map).
MapIndex(m, k, zero) == IF k \in DOMAIN m THEN m[k] ELSE zero

\* The nil / empty map.
EmptyMap == [k \in {} |-> 0]

\* ------------------------------------------------------------ appCategory

catA == 0
catB == 1
catC == 2
catD == 3
catE == 4

\* The closed set of known categories.
Categories == {catA, catB, catC, catD, catE}

\* func (ac appCategory) String() string
String(ac) ==
    CASE ac = catA -> "catA"
      [] ac = catB -> "catB"
      [] ac = catC -> "catC"
      [] ac = catD -> "catD"
      [] ac = catE -> "catE"
      [] OTHER -> "UNKNOWN"

\* A wrong registry: a failed parse falls back to the first category.
parseAppCategory_DefaultCatA(category) ==
    CASE category = "catA" -> [cat |-> catA, err |-> nil]
      [] category = "catB" -> [cat |-> catB, err |-> nil]
      [] category = "catC" -> [cat |-> catC, err |-> nil]
      [] category = "catD" -> [cat |-> catD, err |-> nil]
      [] category = "catE" -> [cat |-> catE, err |-> nil]
      [] OTHER -> [cat |-> catA,
                   err |-> Errorf("unknown application category: '%s'", <<category>>)]

\* A wrong registry: catB's arm returns catC.
parseAppCategory_WrongArm(category) ==
    CASE category = "catA" -> [cat |-> catA, err |-> nil]
      [] category = "catB" -> [cat |-> catC, err |-> nil]
      [] category = "catC" -> [cat |-> catC, err |-> nil]
      [] category = "catD" -> [cat |-> catD, err |-> nil]
      [] category = "catE" -> [cat |-> catE, err |-> nil]
      [] OTHER -> [cat |-> -1,
                   err |-> Errorf("unknown application category: '%s'", <<category>>)]

\* A wrong registry: the sentinel that String renders is accepted on parse.
parseAppCategory_AcceptsSentinel(category) ==
    CASE category = "catA" -> [cat |-> catA, err |-> nil]
      [] category = "catB" -> [cat |-> catB, err |-> nil]
      [] category = "catC" -> [cat |-> catC, err |-> nil]
      [] category = "catD" -> [cat |-> catD, err |-> nil]
      [] category = "catE" -> [cat |-> catE, err |-> nil]
      [] category = "UNKNOWN" -> [cat |-> -1, err |-> nil]
      [] OTHER -> [cat |-> -1,
                   err |-> Errorf("unknown application category: '%s'", <<category>>)]

\* func parseAppCategory(category string) (appCategory, error)
parseAppCategory(category) ==
    CASE category = "catA" -> [cat |-> catA, err |-> nil]
      [] category = "catB" -> [cat |-> catB, err |-> nil]
      [] category = "catC" -> [cat |-> catC, err |-> nil]
      [] category = "catD" -> [cat |-> catD, err |-> nil]
      [] category = "catE" -> [cat |-> catE, err |-> nil]
      [] OTHER -> [cat |-> -1,
                   err |-> Errorf("unknown application category: '%s'", <<category>>)]

\* A wrong lookup: the table is indexed occupant first.
attack_Transposed(sd, ac, occupant) ==
    MapIndex(MapIndex(sd, occupant, EmptyMap), ac, Float(0, 0))

\* func (ac appCategory) attack(occupant appCategory) float64, reading the
\* table sd:  return slowDowns[ac][occupant]
attack(sd, ac, occupant) ==
    MapIndex(MapIndex(sd, ac, EmptyMap), occupant, Float(0, 0))

\* ------------------------------------------------------------- slowDowns

\* The initializer of  var slowDowns = slowDownMatrix{...}
slowDownMatrix ==
    (catA :> (catA :> Float(1, 15) @@ catB :> Float(2, 43) @@ catC :> Float(1, 22)
              @@ catD :> Float(1, 34) @@ catE :> Float(1, 41))) @@
    (catB :> (catA :> Float(2, 19) @@ catB :> Float(1, 26) @@ catC :> Float(1, 48)
              @@ catD :> Float(3, 10) @@ catE :> Float(1, 37))) @@
    (catC :> (catA :> Float(1, 21) @@ catB :> Float(3, 9) @@ catC :> Float(2, 12)
              @@ catD :> Float(1, 18) @@ catE :> Float(1, 53))) @@
    (catD :> (catA :> Float(1, 47) @@ catB :> Float(1, 24) @@ catC :> Float(1, 76)
              @@ catD :> Float(2, 25) @@ catE :> Float(1, 10))) @@
    (catE :> (catA :> Float(3, 15) @@ catB :> Float(1, 74) @@ catC :> Float(1, 16)
              @@ catD :> Float(1, 27) @@ catE :> Float(2, 53)))

\* ---------------------------------------------------- HardcodedSlowDowns

\* const toInt64Multiplier = 100.
toInt64Multiplier == Float(100, 0)

\* func New(actiLabelKey string) *HardcodedSlowDowns
New(actiLabelKey) == [actiLabelKey |-> actiLabelKey]

\* func (_ *HardcodedSlowDowns) ToInt64Multiplier() float64, on receiver m
\* (which the method does not read).
ToInt64Multiplier(m) == toInt64Multiplier

\* ------------------------------------------------------------------ inputs

\* Label keys a pod may carry; the model is built with one of them.
ActiKey == "acti"
OtherKey == "app"
LabelKeys == {ActiKey, OtherKey}

\* Label values of pods: the five canonical names and one that is not.
LabelValues == {"catA", "catB", "catC", "catD", "catE", "catF"}

\* corev1.Pod, reduced to its Labels map: without labels, labelled under
\* ActiKey, and labelled under OtherKey only.
Pods ==
    {[Labels |-> EmptyMap]}
    \cup {[Labels |-> (ActiKey :> v)] : v \in LabelValues}
    \cup {[Labels |-> (OtherKey :> "catA")]}

\* Strings handed to parseAppCategory directly.
Strings == LabelValues \cup {"", "CatA", "UNKNOWN", "unknownCat"}

\* appCategory values handed to String directly: the int64 values around the
\* closed set.
CategoryValues == {-1} \cup Categories \cup {catE + 1}

\* pod.Labels[key]
Label(pod, key) == MapIndex(pod.Labels, key, "")

Idle == [op |-> "idle"]

\* m.Attack(attacker, occupant) run alone from start to end (lines 33-42) on
\* the table sd: what one call returns when nothing else runs.
Attack(m, sd, attacker, occupant) ==
    LET occ == parseAppCategory(Label(occupant, m.actiLabelKey))
        new == parseAppCategory(Label(attacker, m.actiLabelKey))
    IN  IF new.err # nil
        THEN [ret |-> Float(-1, 0), err |-> new.err]
        ELSE [ret |-> attack(sd, new.cat, occ.cat), err |-> nil]

\* ------------------------------------------------------------------- state

\* The package is initialised (slowDowns holds its initializer), the plugin has
\* built its model with New, and no goroutine is in a call.
Init ==
    /\ slowDowns = slowDownMatrix
    /\ model \in {New(k) : k \in LabelKeys}
    /\ frames = [g \in Goroutines |-> Idle]
    /\ ncalls = 0

\* A goroutine that is in no call may start one.
CanCall(g) == frames[g] = Idle /\ ncalls < MaxCalls

\* ------------------------------------------------------------------ Attack

\* m.Attack(attacker, occupant) is entered.
CallAttack(g, attacker, occupant) ==
    /\ CanCall(g)
    /\ frames' = [frames EXCEPT ![g] =
           [op |-> "Attack", pc |-> "l34", attacker |-> attacker, occupant |-> occupant]]
    /\ ncalls' = ncalls + 1
    /\ UNCHANGED <<slowDowns, model>>

\* A wrong line 34: the occupant's parse error is returned to the caller.
AttackParseOccupant_Checked(g) ==
    /\ frames[g].op = "Attack" /\ frames[g].pc = "l34"
    /\ LET f == frames[g]
           r == parseAppCategory(Label(f.occupant, model.actiLabelKey))
       IN  frames' = [frames EXCEPT ![g] =
               IF r.err # nil
               THEN [op |-> "Attack", pc |-> "done", attacker |-> f.attacker,
                     occupant |-> f.occupant, ret |-> Float(-1, 0), err |-> r.err,
                     indexed |-> {}]
               ELSE [op |-> "Attack", pc |-> "l37", attacker |-> f.attacker,
                     occupant |-> f.occupant, occPodCategory |-> r.cat]]
    /\ UNCHANGED <<slowDowns, model, ncalls>>

\* line 34: occPodCategory, _ := parseAppCategory(occupant.Labels[m.actiLabelKey])
AttackParseOccupant(g) ==
    /\ frames[g].op = "Attack" /\ frames[g].pc = "l34"
    /\ LET f == frames[g]
           r == parseAppCategory(Label(f.occupant, model.actiLabelKey))
       IN  frames' = [frames EXCEPT ![g] =
               [op |-> "Attack", pc |-> "l37", attacker |-> f.attacker,
                occupant |-> f.occupant, occPodCategory |-> r.cat]]
    /\ UNCHANGED <<slowDowns, model, ncalls>>

\* A wrong line 37: the occupant's label is parsed a second time.
AttackParseAttacker_OccupantLabel(g) ==
    /\ frames[g].op = "Attack" /\ frames[g].pc = "l37"
    /\ LET f == frames[g]
           r == parseAppCategory(Label(f.occupant, model.actiLabelKey))
       IN  frames' = [frames EXCEPT ![g] =
               [op |-> "Attack", pc |-> "l38", attacker |-> f.attacker,
                occupant |-> f.occupant, occPodCategory |-> f.occPodCategory,
                newPodCategory |-> r.cat, err |-> r.err]]
    /\ UNCHANGED <<slowDowns, model, ncalls>>

\* line 37: newPodCategory, err := parseAppCategory(attacker.Labels[m.actiLabelKey])
AttackParseAttacker(g) ==
    /\ frames[g].op = "Attack" /\ frames[g].pc = "l37"
    /\ LET f == frames[g]
           r == parseAppCategory(Label(f.attacker, model.actiLabelKey))
       IN  frames' = [frames EXCEPT ![g] =
               [op |-> "Attack", pc |-> "l38", attacker |-> f.attacker,
                occupant |-> f.occupant, occPodCategory |-> f.occPodCategory,
                newPodCategory |-> r.cat, err |-> r.err]]
    /\ UNCHANGED <<slowDowns, model, ncalls>>

\* Wrong lines 38-40: the failure value is returned with a nil error.
AttackReturn_DropsErr(g) ==
    /\ frames[g].op = "Attack" /\ frames[g].pc = "l38"
    /\ LET f == frames[g]
       IN  frames' = [frames EXCEPT ![g] =
               IF f.err # nil
               THEN [op |-> "Attack", pc |-> "done", attacker |-> f.attacker,
                     occupant |-> f.occupant, ret |-> Float(-1, 0), err |-> nil,
                     indexed |-> {}]
               ELSE [op |-> "Attack", pc |-> "done", attacker |-> f.attacker,
                     occupant |-> f.occupant,
                     ret |-> attack(slowDowns, f.newPodCategory, f.occPodCategory),
                     err |-> nil,
                     indexed |-> {<<f.newPodCategory, f.occPodCategory>>}]]
    /\ UNCHANGED <<slowDowns, model, ncalls>>

\* A wrong line 108: a missing entry is stored in the table as it is read.
AttackReturn_StoresMissing(g) ==
    /\ frames[g].op = "Attack" /\ frames[g].pc = "l38"
    /\ LET f == frames[g]
       IN  /\ frames' = [frames EXCEPT ![g] =
                 IF f.err # nil
                 THEN [op |-> "Attack", pc |-> "done", attacker |-> f.attacker,
                       occupant |-> f.occupant, ret |-> Float(-1, 0), err |-> f.err,
                       indexed |-> {}]
                 ELSE [op |-> "Attack", pc |-> "done", attacker |-> f.attacker,
                       occupant |-> f.occupant,
                       ret |-> attack(slowDowns, f.newPodCategory, f.occPodCategory),
                       err |-> nil,
                       indexed |-> {<<f.newPodCategory, f.occPodCategory>>}]]
           /\ slowDowns' =
                 IF f.err = nil /\ f.occPodCategory \notin DOMAIN slowDowns[f.newPodCategory]
                 THEN [slowDowns EXCEPT ![f.newPodCategory] =
                          (f.occPodCategory :> Float(0, 0)) @@ @]
                 ELSE slowDowns
    /\ UNCHANGED <<model, ncalls>>

\* lines 38-41:  if err != nil { return -1, err }
\*               return newPodCategory.attack(occPodCategory), nil
\* indexed records the pair of keys the call indexed slowDowns with (line 108).
AttackReturn(g) ==
    /\ frames[g].op = "Attack" /\ frames[g].pc = "l38"
    /\ LET f == frames[g]
       IN  frames' = [frames EXCEPT ![g] =
               IF f.err # nil
               THEN [op |-> "Attack", pc |-> "done", attacker |-> f.attacker,
                     occupant |-> f.occupant, ret |-> Float(-1, 0), err |-> f.err,
                     indexed |-> {}]
               ELSE [op |-> "Attack", pc |-> "done", attacker |-> f.attacker,
                     occupant |-> f.occupant,
                     ret |-> attack(slowDowns, f.newPodCategory, f.occPodCategory),
                     err |-> nil,
                     indexed |-> {<<f.newPodCategory, f.occPodCategory>>}]]
    /\ UNCHANGED <<slowDowns, model, ncalls>>

\* ------------------------------------------------------- ToInt64Multiplier

\* A wrong accessor: the multiplier drifts with the calls made so far.
CallToInt64Multiplier_Drifts(g) ==
    /\ CanCall(g)
    /\ frames' = [frames EXCEPT ![g] =
           [op |-> "ToInt64Multiplier", pc |-> "done",
            ret |-> ToInt64Multiplier(model) + ncalls]]
    /\ ncalls' = ncalls + 1
    /\ UNCHANGED <<slowDowns, model>>

\* m.ToInt64Multiplier(): one statement, return toInt64Multiplier.
CallToInt64Multiplier(g) ==
    /\ CanCall(g)
    /\ frames' = [frames EXCEPT ![g] =
           [op |-> "ToInt64Multiplier", pc |-> "done", ret |-> ToInt64Multiplier(model)]]
    /\ ncalls' = ncalls + 1
    /\ UNCHANGED <<slowDowns, model>>

\* ------------------------------------------------- the registry, directly

\* parseAppCategory(category), called on its own.
CallParseAppCategory(g, category) ==
    /\ CanCall(g)
    /\ LET r == parseAppCategory(category)
       IN  frames' = [frames EXCEPT ![g] =
               [op |-> "parseAppCategory", pc |-> "done", category |-> category,
                ret |-> r.cat, err |-> r.err]]
    /\ ncalls' = ncalls + 1
    /\ UNCHANGED <<slowDowns, model>>

\* ac.String(), called on its own.
CallString(g, ac) ==
    /\ CanCall(g)
    /\ frames' = [frames EXCEPT ![g] =
           [op |-> "String", pc |-> "done", ac |-> ac, ret |-> String(ac)]]
    /\ ncalls' = ncalls + 1
    /\ UNCHANGED <<slowDowns, model>>

\* parseAppCategory(ac.String()): the rendered name is parsed back.
CallParseString(g, ac) ==
    /\ CanCall(g)
    /\ LET r == parseAppCategory(String(ac))
       IN  frames' = [frames EXCEPT ![g] =
               [op |-> "parseString", pc |-> "done", ac |-> ac,
                ret |-> r.cat, err |-> r.err]]
    /\ ncalls' = ncalls + 1
    /\ UNCHANGED <<slowDowns, model>>

\* The caller takes the results; the goroutine is free for its next call.
Return(g) ==
    /\ frames[g] # Idle /\ frames[g].pc = "done"
    /\ frames' = [frames EXCEPT ![g] = Idle]
    /\ UNCHANGED <<slowDowns, model, ncalls>>

Next ==
    \E g \in Goroutines :
        \/ \E attacker \in Pods, occupant \in Pods : CallAttack(g, attacker, occupant)
        \/ AttackParseOccupant(g)
        \/ AttackParseAttacker(g)
        \/ AttackReturn(g)
        \/ CallToInt64Multiplier(g)
        \/ \E category \in Strings : CallParseAppCategory(g, category)
        \/ \E ac \in CategoryValues : CallString(g, ac)
        \/ \E ac \in CategoryValues : CallParseString(g, ac)
        \/ Return(g)

Spec == Init /\ [][Next]_vars

\* ------------------------------------------------------------- properties

\* The five canonical category names.
CanonicalNames == {"catA", "catB", "catC", "catD", "catE"}

\* Goroutine g holds the results of a finished Attack call.
DoneAttack(g) == frames[g].op = "Attack" /\ frames[g].pc = "done"

\* The label values Attack reads from the pods of g's call.
AttackerLabel(g) == Label(frames[g].attacker, model.actiLabelKey)
OccupantLabel(g) == Label(frames[g].occupant, model.actiLabelKey)

\* C1: for every pair (a, o) of the five categories, Attack on an attacker
\* labelled String(a) and an occupant labelled String(o) returns a nil error and
\* the value configured at slowDowns[a][o], attacker first (catA/catB gives
\* 2.43, catB/catA 2.19, catB/catD 3.10), never the transposed entry when the
\* two differ.
C1_TableLookup ==
    \A g \in Goroutines : DoneAttack(g) =>
        \A a \in Categories, o \in Categories :
            (AttackerLabel(g) = String(a) /\ OccupantLabel(g) = String(o)) =>
                /\ frames[g].err = nil
                /\ frames[g].ret = slowDownMatrix[a][o]
                /\ (slowDownMatrix[a][o] # slowDownMatrix[o][a]
                        => frames[g].ret # slowDownMatrix[o][a])
                /\ (a = catA /\ o = catB => frames[g].ret = Float(2, 43))
                /\ (a = catB /\ o = catA => frames[g].ret = Float(2, 19))
                /\ (a = catB /\ o = catD => frames[g].ret = Float(3, 10))

C1_Witness ==
    \E g \in Goroutines :
        /\ DoneAttack(g)
        /\ AttackerLabel(g) = "catA" /\ OccupantLabel(g) = "catB"
        /\ frames[g].ret = Float(2, 43)
        /\ slowDownMatrix[catB][catA] = Float(2, 19)

\* C2: when the attacker's label value (the empty string when the label is
\* absent) is not a canonical name, Attack returns a non-nil unknown-category
\* error whose message names the attacker's label, and no factor from the
\* table, whatever the occupant's label; with both labels invalid the error
\* names the attacker's label, not the occupant's.
C2_AttackerRejected ==
    \A g \in Goroutines : DoneAttack(g) =>
        (AttackerLabel(g) \notin CanonicalNames =>
            /\ frames[g].err # nil
            /\ frames[g].err.format = "unknown application category: '%s'"
            /\ frames[g].err.args = <<AttackerLabel(g)>>
            /\ frames[g].ret = Float(-1, 0)
            /\ frames[g].indexed = {})

C2_Witness ==
    \E g \in Goroutines :
        /\ DoneAttack(g)
        /\ AttackerLabel(g) = "" /\ OccupantLabel(g) = "catF"
        /\ frames[g].err.args = <<"">>
        /\ \E h \in Goroutines :
              /\ DoneAttack(h)
              /\ AttackerLabel(h) = "catF" /\ OccupantLabel(h) = "catA"
              /\ frames[h].err.args = <<"catF">>

\* C3: the occupant's label never makes Attack fail: Attack returns a non-nil
\* error exactly when the attacker's label fails to parse.
C3_OnlyAttackerFails ==
    \A g \in Goroutines : DoneAttack(g) =>
        (frames[g].err # nil <=> AttackerLabel(g) \notin CanonicalNames)

C3_Witness ==
    \E g \in Goroutines :
        /\ DoneAttack(g)
        /\ AttackerLabel(g) = "catC" /\ OccupantLabel(g) \notin CanonicalNames
        /\ frames[g].err = nil

\* C4: every category value used to index slowDowns, attacker index and
\* occupant index, is one of catA..catE.
C4_IndicesKnown ==
    \A g \in Goroutines : DoneAttack(g) =>
        \A p \in frames[g].indexed : p[1] \in Categories /\ p[2] \in Categories

\* C5: for every category c of the closed set, parseAppCategory(c.String())
\* returns a nil error and c.
C5_RoundTrip ==
    \A g \in Goroutines :
        (frames[g].op = "parseString" /\ frames[g].ac \in Categories) =>
            frames[g].err = nil /\ frames[g].ret = frames[g].ac

C5_Witness ==
    \E g \in Goroutines, h \in Goroutines :
        /\ frames[g].op = "parseString" /\ frames[g].ac = catB /\ frames[g].ret = catB
        /\ frames[h].op = "parseString" /\ frames[h].ac = catE /\ frames[h].ret = catE

\* C6: parseAppCategory succeeds exactly on the five canonical names; on every
\* other string it fails with the unknown-category error whose message holds
\* the string, and equal inputs give equal outcomes.
C6_ParseRejects ==
    \A g \in Goroutines : frames[g].op = "parseAppCategory" =>
        /\ frames[g].err = nil <=> frames[g].category \in CanonicalNames
        /\ frames[g].err # nil =>
              /\ frames[g].err.format = "unknown application category: '%s'"
              /\ frames[g].err.args = <<frames[g].category>>
        /\ \A h \in Goroutines :
              (frames[h].op = "parseAppCategory"
                  /\ frames[h].category = frames[g].category) =>
                  frames[h].ret = frames[g].ret /\ frames[h].err = frames[g].err

C6_Witness ==
    \E g \in Goroutines, h \in Goroutines :
        /\ g # h
        /\ frames[g].op = "parseAppCategory" /\ frames[g].category = "UNKNOWN"
        /\ frames[h].op = "parseAppCategory" /\ frames[h].category = "UNKNOWN"
        /\ frames[g].err # nil

\* C7: Attack ends either in a failure or in a nil error with a factor >= 0,
\* and each of the 25 entries of slowDowns is >= 0.
C7_NonNegative ==
    /\ \A g \in Goroutines : DoneAttack(g) =>
          frames[g].err # nil \/ frames[g].ret >= Float(0, 0)
    /\ DOMAIN slowDowns = Categories
    /\ \A a \in Categories :
          /\ DOMAIN slowDowns[a] = Categories
          /\ \A o \in Categories : slowDowns[a][o] >= Float(0, 0)

C7_Witness ==
    \E g \in Goroutines, h \in Goroutines :
        /\ DoneAttack(g) /\ frames[g].err # nil
        /\ DoneAttack(h) /\ frames[h].err = nil /\ frames[h].ret >= Float(0, 0)

\* C8: every ToInt64Multiplier call returns the positive constant 100, for
\* every model and label key and after any earlier calls, and changes neither
\* the table nor the model.
C8_MultiplierFixed ==
    [][\A g \in Goroutines :
          (frames[g] = Idle /\ frames'[g].op = "ToInt64Multiplier") =>
              /\ frames'[g].ret = Float(100, 0)
              /\ frames'[g].ret > Float(0, 0)
              /\ slowDowns' = slowDowns
              /\ model' = model]_vars

C8_Witness ==
    \E g \in Goroutines, h \in Goroutines :
        /\ frames[g].op = "ToInt64Multiplier" /\ frames[g].ret = Float(100, 0)
        /\ DoneAttack(h) /\ frames[h].err # nil
        /\ ncalls = MaxCalls

\* C9: no step writes the slowDowns table or the model, the table always
\* equals its initializer, and under any interleaving every Attack call
\* returns what it returns when run alone.
C9_Immutable ==
    [][/\ slowDowns = slowDownMatrix /\ slowDowns' = slowDownMatrix
       /\ model' = model
       /\ \A g \in Goroutines : DoneAttack(g)' =>
             LET alone == Attack(model, slowDownMatrix,
                                 frames'[g].attacker, frames'[g].occupant)
             IN  frames'[g].ret = alone.ret /\ frames'[g].err = alone.err]_vars

C9_Witness ==
    \E g \in Goroutines, h \in Goroutines :
        /\ DoneAttack(g) /\ frames[g].err = nil /\ frames[g].ret = Float(0, 0)
        /\ frames[h].op = "Attack" /\ frames[h].pc = "l38"
        /\ frames[h].attacker = frames[g].attacker
        /\ slowDowns = slowDownMatrix

\* C10: with a valid attacker label and an occupant label that is no canonical
\* name, Attack returns a nil error and the factor 0: the occupant index is
\* parseAppCategory's failure value -1, which has no entry in
\* slowDowns[attacker]; 0 is no configured entry and is below 1.0.
C10_InvalidOccupantZero ==
    \A g \in Goroutines : DoneAttack(g) =>
        \A a \in Categories :
            (AttackerLabel(g) = String(a) /\ OccupantLabel(g) \notin CanonicalNames) =>
                /\ frames[g].err = nil
                /\ frames[g].ret = Float(0, 0)
                /\ frames[g].indexed = {<<a, -1>>}
                /\ -1 \notin DOMAIN slowDowns[a]
                /\ \A x \in DOMAIN slowDowns : \A y \in DOMAIN slowDowns[x] :
                      slowDowns[x][y] # frames[g].ret
                /\ frames[g].ret < Float(1, 0)

C10_Witness ==
    \E g \in Goroutines :
        /\ DoneAttack(g)
        /\ AttackerLabel(g) = "catA" /\ OccupantLabel(g) = "catF"
        /\ frames[g].err = nil /\ frames[g].ret = Float(0, 0)

====
